---- MODULE Spec2Model ----
(***************************************************************************)
(* A model of andrewstucki/mailer (src/server.go): an HTTP endpoint that   *)
(* relays a JSON form submission as an e-mail to one fixed inbox, trying   *)
(* the MX servers of the inbox's domain in order.                          *)
(*                                                                         *)
(* Text that the code takes apart or puts together (addresses, host names) *)
(* is a sequence of one-character strings; text the code only carries      *)
(* (Subject, Body, error texts, header values it compares) is a string.    *)
(***************************************************************************)
EXTENDS Naturals, Sequences, FiniteSets

VARIABLES inboxAddress, outboundSender, whitelistedDomain,
          exchange, handlers, sends

config == <<inboxAddress, outboundSender, whitelistedDomain>>
vars == <<inboxAddress, outboundSender, whitelistedDomain, exchange, handlers, sends>>

(***************************************************************************)
(* Bounds.                                                                 *)
(***************************************************************************)
\* Send invocations that run side by side in the whole program's runs.
MaxSends == 2
\* MX records in one DNS answer, when Send invocations run side by side.
MaxMXConcurrent == 1
\* MX records in one DNS answer, when one Send runs at a time.
MaxMX == 3
\* Parts in which a request of the whole program's runs may differ from a
\* well-formed submission.
MaxDeviations == 1

(***************************************************************************)
(* Values.                                                                 *)
(***************************************************************************)
\* Go's nil error.
NoError == "<nil>"
DNSError == "lookup: no such host"
SMTPError == "550 rejected"
BuildError == "Failed to render message"
\* The error texts sendErrorMessage may be handed.
ErrorTexts == {DNSError, SMTPError}

StatusOK == 200
StatusAccepted == 202
StatusNotFound == 404
StatusNotAcceptable == 406
StatusUnsupportedMediaType == 415

\* Host fields of MX records as the resolver returns them: fully qualified
\* names usually end in the root label's dot.
MXHosts == { <<"a", ".">>, <<"b">> }

RECURSIVE SeqsUpTo(_, _)
SeqsUpTo(S, n) ==
    IF n = 0 THEN { <<>> }
    ELSE LET shorter == SeqsUpTo(S, n - 1)
         IN shorter \cup { Append(q, x) : q \in { t \in shorter : Len(t) = n - 1 }, x \in S }

MXAnswers(n) == SeqsUpTo(MXHosts, n)

(***************************************************************************)
(* strings.Split(s, "@") followed by taking the last token: the text after *)
(* the last "@", or all of s when it has none.                             *)
(***************************************************************************)
RECURSIVE LastToken(_)
LastToken(s) ==
    IF s = <<>> THEN <<>>
    ELSE IF \E k \in 1..Len(s) : s[k] = "@"
         THEN LET k == CHOOSE k \in 1..Len(s) :
                          /\ s[k] = "@"
                          /\ \A j \in (k+1)..Len(s) : s[j] # "@"
              IN SubSeq(s, k + 1, Len(s))
         ELSE s

\* strings.TrimRight(host, "."): drop every trailing dot.
RECURSIVE TrimRightDots(_)
TrimRightDots(h) ==
    IF h # <<>> /\ h[Len(h)] = "."
    THEN TrimRightDots(SubSeq(h, 1, Len(h) - 1))
    ELSE h

\* fmt.Sprintf("%s:25", strings.TrimRight(server.Host, "."))
ServerAddr(host) == TrimRightDots(host) \o <<":", "2", "5">>

\* As Servers, falling back to the domain's own host when there is no MX
\* record.
ServersWithFallback(mx) ==
    IF mx = <<>> THEN << LastToken(inboxAddress) \o <<":", "2", "5">> >>
    ELSE [k \in 1..Len(mx) |-> ServerAddr(mx[k])]

\* The first loop of Send: one address per MX record, in the resolver's order.
Servers(mx) == [k \in 1..Len(mx) |-> ServerAddr(mx[k])]

(***************************************************************************)
(* Email and the Message Builder.                                          *)
(***************************************************************************)
\* The zero value of the Email struct.
ZeroEmail == [From |-> <<>>, Subject |-> "", Body |-> ""]

\* As ConstructMessage, reading one message variable that every request
\* decodes into, in place of the receiver.
ConstructMessageShared(m) ==
    LET latest == sends[Len(sends)].e
    IN [From |-> latest.From, To |-> <<inboxAddress>>, Subject |-> latest.Subject,
        Text |-> latest.Body]

\* The fields ConstructMessage sets on the library's message before it
\* serialises it (message.Bytes() is the library's; it either fails or
\* yields the bytes of exactly these fields).
ConstructMessage(m) ==
    [From |-> m.From, To |-> <<inboxAddress>>, Subject |-> m.Subject, Text |-> m.Body]

NoMessage == [From |-> <<>>, To |-> <<>>, Subject |-> "", Text |-> ""]

(***************************************************************************)
(* Requests.                                                               *)
(***************************************************************************)
JSONString(v) == [t |-> "string", v |-> v]
JSONNumber == [t |-> "number", v |-> 0]

Alice == <<"a", "@", "w">>
Bob == <<"b", "@", "w">>

\* Request bodies: a text that is not JSON, and JSON objects given as their
\* members in order.
Malformed == [json |-> FALSE, members |-> <<>>]
Object(members) == [json |-> TRUE, members |-> members]
Bodies ==
    { Malformed,
      Object(<< <<"From", JSONString(Alice)>>, <<"Body", JSONString("hi")>> >>),
      Object(<< <<"From", JSONString(Bob)>>, <<"Subject", JSONString("Win")>>,
                <<"Body", JSONString("yo")>> >>),
      Object(<< <<"From", JSONString(Alice)>>, <<"Subject", JSONNumber>>,
                <<"Body", JSONString("hi")>> >>) }

Origin == "https://site"

\* Every request over the header and body values above.
AllRequests ==
    [ method : {"POST", "GET", "OPTIONS"},
      path : {"/send", "/"},
      contentType : {"application/json", "text/plain"},
      accept : {"*/*", "application/json", "text/html"},
      origin : {Origin, "https://evil", ""},
      body : Bodies ]

\* The requests that differ from a well-formed submission in at most
\* MaxDeviations of their parts.
WellFormed ==
    [ method |-> "POST", path |-> "/send", contentType |-> "application/json",
      accept |-> "*/*", origin |-> Origin,
      body |-> Object(<< <<"From", JSONString(Alice)>>, <<"Body", JSONString("hi")>> >>) ]

Deviations(req) == Cardinality({ f \in DOMAIN WellFormed : req[f] # WellFormed[f] })

Requests == { req \in AllRequests : Deviations(req) <= MaxDeviations }

(***************************************************************************)
(* json.Decoder.Decode into an Email.  The struct tag on Subject is        *)
(* written json:'-' (single quotes), which the reflect package does not    *)
(* read as a tag, so Subject is decoded like From and Body.  A member      *)
(* whose name is a field and whose value is not a string is a type error:  *)
(* the decoder skips it, goes on, and returns the error at the end.        *)
(***************************************************************************)
EmailFields == {"From", "Subject", "Body"}

RECURSIVE DecodeMembers(_, _)
DecodeMembers(members, acc) ==
    IF members = <<>> THEN acc
    ELSE LET key == Head(members)[1]
             val == Head(members)[2]
             next == IF key \notin EmailFields THEN acc
                     ELSE IF val.t = "string"
                          THEN [acc EXCEPT !.message = [@ EXCEPT ![key] = val.v]]
                          ELSE [acc EXCEPT !.err = TRUE]
         IN DecodeMembers(Tail(members), next)

Decode(body) ==
    IF ~body.json THEN [err |-> TRUE, message |-> ZeroEmail]
    ELSE DecodeMembers(body.members, [err |-> FALSE, message |-> ZeroEmail])

(***************************************************************************)
(* State.                                                                  *)
(*   exchange  the last completed HTTP exchange, if any: the request and   *)
(*             what was answered (send: the goroutine it started, or 0);   *)
(*   handlers  ServeHTTP calls that have started their goroutine and have  *)
(*             not yet written the response;                               *)
(*   sends     the Send invocations, in the order they were started.       *)
(***************************************************************************)
Response(req, status, header, text, send) ==
    [req |-> req, status |-> status, header |-> header, text |-> text, send |-> send]

\* A Send invocation.  e is the Email it is called on (for a request, the
\* handler's message variable, which the goroutine captures); given is e as
\* it was when the invocation was started, kept for reference; err is the
\* err declared at the top of Send; lookups counts its calls of
\* net.LookupMX and mxServers is what the lookup returned when it worked;
\* log has one entry per pass of the second loop.
NewSend(kind, e, pc) ==
    [kind |-> kind, e |-> e, given |-> e, pc |-> pc, domain |-> <<>>,
     lookups |-> 0, mxServers |-> <<>>, servers |-> <<>>, i |-> 1,
     err |-> NoError, log |-> <<>>, ret |-> NoError]

Init ==
    /\ inboxAddress = <<"i", "@", "d">>
    /\ outboundSender = <<"n", "@", "s">>
    /\ whitelistedDomain = Origin
    /\ exchange = {}
    /\ handlers = {}
    /\ sends = <<>>

(***************************************************************************)
(* main: http.Handle("/send", corsPanicHandler(sendEndpoint)) on the       *)
(* default mux.  Any other path never reaches the handler: the mux answers *)
(* 404 itself.                                                             *)
(***************************************************************************)
Routed(req) == req.path = "/send"

MuxNotFound(req) ==
    /\ ~Routed(req)
    /\ exchange' = {Response(req, StatusNotFound, {}, "404 page not found", 0)}
    /\ UNCHANGED <<config, handlers, sends>>

(***************************************************************************)
(* corsPanicHandler: OPTIONS is answered here (the default status, with    *)
(* the grant headers when Origin is the whitelisted one); everything else  *)
(* goes to ServeHTTP.                                                      *)
(***************************************************************************)
CorsHeaders(origin) ==
    { <<"Access-Control-Allow-Origin", origin>>,
      <<"Access-Control-Allow-Methods", "POST">>,
      <<"Access-Control-Allow-Headers",
        "Accept, Content-Type, Content-Length, Accept-Encoding">> }

\* As OriginAllowed, granting every request that names an origin.
OriginAllowedAny(origin) == origin # ""

\* origin == whitelistedDomain, origin being r.Header.Get("Origin").
OriginAllowed(origin) == origin = whitelistedDomain

corsPanicHandler(req) ==
    /\ Routed(req)
    /\ req.method = "OPTIONS"
    /\ exchange' = {Response(req, StatusOK,
                             IF OriginAllowed(req.origin)
                             THEN CorsHeaders(req.origin) ELSE {},
                             "", 0)}
    /\ UNCHANGED <<config, handlers, sends>>

(***************************************************************************)
(* SendHandler.ServeHTTP.  Rejection is the first failing check.           *)
(***************************************************************************)
NoRejection == [status |-> 0, text |-> ""]

\* As Rejection, with the Accept check made before the Content-Type check.
RejectionAcceptFirst(req) ==
    IF req.method # "POST" \/ req.path # "/send"
    THEN [status |-> StatusNotFound, text |-> "404"]
    ELSE IF req.accept # "*/*" /\ req.accept # "application/json"
    THEN [status |-> StatusNotAcceptable, text |-> "406"]
    ELSE IF req.contentType # "application/json"
    THEN [status |-> StatusUnsupportedMediaType, text |-> "415"]
    ELSE IF Decode(req.body).err
    THEN [status |-> StatusNotAcceptable, text |-> "422"]
    ELSE NoRejection

\* As Rejection, with the Content-Type check made before the check of
\* method and path.
RejectionContentTypeFirst(req) ==
    IF req.contentType # "application/json"
    THEN [status |-> StatusUnsupportedMediaType, text |-> "415"]
    ELSE IF req.method # "POST" \/ req.path # "/send"
    THEN [status |-> StatusNotFound, text |-> "404"]
    ELSE IF req.accept # "*/*" /\ req.accept # "application/json"
    THEN [status |-> StatusNotAcceptable, text |-> "406"]
    ELSE IF Decode(req.body).err
    THEN [status |-> StatusNotAcceptable, text |-> "422"]
    ELSE NoRejection

\* As Rejection, without the Accept check.
RejectionNoAccept(req) ==
    IF req.method # "POST" \/ req.path # "/send"
    THEN [status |-> StatusNotFound, text |-> "404"]
    ELSE IF req.contentType # "application/json"
    THEN [status |-> StatusUnsupportedMediaType, text |-> "415"]
    ELSE IF Decode(req.body).err
    THEN [status |-> StatusNotAcceptable, text |-> "422"]
    ELSE NoRejection

Rejection(req) ==
    IF req.method # "POST" \/ req.path # "/send"
    THEN [status |-> StatusNotFound, text |-> "404"]
    ELSE IF req.contentType # "application/json"
    THEN [status |-> StatusUnsupportedMediaType, text |-> "415"]
    ELSE IF req.accept # "*/*" /\ req.accept # "application/json"
    THEN [status |-> StatusNotAcceptable, text |-> "406"]
    ELSE IF Decode(req.body).err
    THEN [status |-> StatusNotAcceptable, text |-> "422"]
    ELSE NoRejection

\* As ServeHTTPReject, with the return after the JSON error left out: the
\* handler goes on to start the goroutine.
ServeHTTPRejectFallsThrough(req) ==
    /\ Routed(req)
    /\ req.method # "OPTIONS"
    /\ Rejection(req) # NoRejection
    /\ IF Rejection(req).text = "422"
       THEN /\ exchange' = {Response(req, Rejection(req).status, {},
                                     Rejection(req).text, Len(sends) + 1)}
            /\ sends' = Append(sends, NewSend("user", Decode(req.body).message, "go"))
       ELSE /\ exchange' = {Response(req, Rejection(req).status, {},
                                     Rejection(req).text, 0)}
            /\ sends' = sends
    /\ UNCHANGED <<config, handlers>>

ServeHTTPReject(req) ==
    /\ Routed(req)
    /\ req.method # "OPTIONS"
    /\ Rejection(req) # NoRejection
    /\ exchange' = {Response(req, Rejection(req).status, {}, Rejection(req).text, 0)}
    /\ UNCHANGED <<config, handlers, sends>>

\* go func() { ... }(): the goroutine exists, holding the decoded message.
ServeHTTPGo(req, cap) ==
    /\ Routed(req)
    /\ req.method # "OPTIONS"
    /\ Rejection(req) = NoRejection
    /\ Len(sends) < cap
    /\ sends' = Append(sends, NewSend("user", Decode(req.body).message, "go"))
    /\ handlers' = handlers \cup {[req |-> req, send |-> Len(sends) + 1]}
    /\ UNCHANGED <<config, exchange>>

\* As ServeHTTPAccepted, with the handler waiting for its goroutine's Send
\* to return before it answers.
ServeHTTPAcceptedWaits(h) ==
    /\ h \in handlers
    /\ sends[h.send].pc = "done"
    /\ exchange' = {Response(h.req, StatusAccepted, {}, "", h.send)}
    /\ handlers' = handlers \ {h}
    /\ UNCHANGED <<config, sends>>

\* w.WriteHeader(http.StatusAccepted); return
ServeHTTPAccepted(h) ==
    /\ h \in handlers
    /\ exchange' = {Response(h.req, StatusAccepted, {}, "", h.send)}
    /\ handlers' = handlers \ {h}
    /\ UNCHANGED <<config, sends>>

(***************************************************************************)
(* The detached goroutine and Email.Send.                                  *)
(***************************************************************************)
\* As GoFunc, without the assignment to Subject.
GoFuncKeepsSubject(k) ==
    /\ k \in 1..Len(sends)
    /\ sends[k].pc = "go"
    /\ sends' = [sends EXCEPT ![k] = [@ EXCEPT !.pc = "send"]]
    /\ UNCHANGED <<config, exchange, handlers>>

\* message.Subject = "New Web Inquiry", then the call of Send.
GoFunc(k) ==
    /\ k \in 1..Len(sends)
    /\ sends[k].pc = "go"
    /\ sends' = [sends EXCEPT ![k] = [@ EXCEPT !.e.Subject = "New Web Inquiry",
                                               !.pc = "send"]]
    /\ UNCHANGED <<config, exchange, handlers>>

\* What Send returns after its second loop: the err declared at the top of
\* Send.  The loop's  msg, err := e.ConstructMessage()  declares a new err
\* in the loop body, and SendMail's result is assigned to that one.
LoopResult(outerErr, loopErr) == outerErr

\* As LookupReturns, with the early return left out.
LookupReturnsNever(err) == FALSE

\* if err != nil { return err } after the lookup.
LookupReturns(err) == err # NoError

\* As LoopEnds, with a failure of the message builder ending the loop.
LoopEndsOnBuildError(loopErr, i, n) ==
    loopErr = NoError \/ loopErr = BuildError \/ i = n

\* As LoopEnds, without the break.
LoopEndsNoBreak(loopErr, i, n) == i = n

\* The second loop is left by break after a transaction that worked, or
\* when the candidates are used up.
LoopEnds(loopErr, i, n) == loopErr = NoError \/ i = n

\* As NextCandidate, trying the same candidate again.
NextCandidateRetry(i) == i

\* for _, server := range servers: the next pass takes the next candidate.
NextCandidate(i) == i + 1

\* As Envelope, with the message's own From as the envelope sender.
EnvelopeFromMessage(m) == [from |-> m.From, to |-> <<inboxAddress>>]

\* The envelope handed to smtp.SendMail.
Envelope(m) == [from |-> outboundSender, to |-> <<inboxAddress>>]

\* As LookupMX, with a failed lookup of an error report's Send reported in
\* turn by a further error report.
LookupMXReports(k, answers) ==
    /\ k \in 1..Len(sends)
    /\ sends[k].pc = "send"
    /\ \E mx \in answers, err \in {NoError, DNSError} :
         LET servers == Servers(mx)
             s == [sends[k] EXCEPT !.domain = LastToken(inboxAddress),
                                   !.lookups = @ + 1, !.err = err]
             after == [sends EXCEPT ![k] =
                IF LookupReturns(err)
                THEN [s EXCEPT !.pc = "done", !.ret = err]
                ELSE IF servers = <<>>
                THEN [s EXCEPT !.pc = "done", !.ret = LoopResult(err, NoError)]
                ELSE [s EXCEPT !.pc = "loop", !.mxServers = mx, !.servers = servers]]
         IN sends' = IF LookupReturns(err) /\ sends[k].kind = "error"
                     THEN Append(after,
                                 NewSend("error",
                                         [From |-> sends[k].e.From,
                                          Subject |-> "Application Error",
                                          Body |-> err],
                                         "send"))
                     ELSE after
    /\ UNCHANGED <<config, exchange, handlers>>

\* The start of Send up to the second loop: the domain of the inbox, the MX
\* lookup (which may fail, with or without records), the server list.
LookupMX(k, answers) ==
    /\ k \in 1..Len(sends)
    /\ sends[k].pc = "send"
    /\ \E mx \in answers, err \in {NoError, DNSError} :
         LET servers == Servers(mx)
             s == [sends[k] EXCEPT !.domain = LastToken(inboxAddress),
                                   !.lookups = @ + 1, !.err = err]
         IN sends' = [sends EXCEPT ![k] =
                IF LookupReturns(err)
                THEN [s EXCEPT !.pc = "done", !.ret = err]
                ELSE IF servers = <<>>
                THEN [s EXCEPT !.pc = "done", !.ret = LoopResult(err, NoError)]
                ELSE [s EXCEPT !.pc = "loop", !.mxServers = mx, !.servers = servers]]
    /\ UNCHANGED <<config, exchange, handlers>>

\* One pass of the second loop: build the message; if that worked, one SMTP
\* transaction with the candidate; stop on success or after the last one.
Attempt(k) ==
    /\ k \in 1..Len(sends)
    /\ sends[k].pc = "loop"
    /\ \E built \in BOOLEAN, smtpErr \in {NoError, SMTPError} :
         LET s == sends[k]
             server == s.servers[s.i]
             loopErr == IF built THEN smtpErr ELSE BuildError
             entry == IF built
                      THEN [server |-> server, built |-> TRUE,
                            from |-> Envelope(s.e).from, to |-> Envelope(s.e).to,
                            msg |-> ConstructMessage(s.e), err |-> smtpErr]
                      ELSE [server |-> server, built |-> FALSE, from |-> <<>>,
                            to |-> <<>>, msg |-> NoMessage, err |-> BuildError]
             logged == [s EXCEPT !.log = Append(@, entry)]
         IN sends' = [sends EXCEPT ![k] =
                IF LoopEnds(loopErr, s.i, Len(s.servers))
                THEN [logged EXCEPT !.pc = "done", !.ret = LoopResult(s.err, loopErr)]
                ELSE [logged EXCEPT !.i = NextCandidate(@)]]
    /\ UNCHANGED <<config, exchange, handlers>>

(***************************************************************************)
(* sendErrorMessage(err): the report is built and sent with Send; Send's   *)
(* result is dropped.  Nothing in the program calls it; Harness below      *)
(* calls it directly.                                                      *)
(***************************************************************************)
ErrorsFrom == <<"e", "r", "r", "o", "r", "s", "@">> \o LastToken(outboundSender)

sendErrorMessage(text, cap) ==
    /\ Len(sends) < cap
    /\ sends' = Append(sends,
                       NewSend("error",
                               [From |-> ErrorsFrom, Subject |-> "Application Error",
                                Body |-> text],
                               "send"))
    /\ UNCHANGED <<config, exchange, handlers>>

(***************************************************************************)
(* Specifications.                                                         *)
(***************************************************************************)
Serve(req, cap) ==
    \/ MuxNotFound(req)
    \/ corsPanicHandler(req)
    \/ ServeHTTPReject(req)
    \/ ServeHTTPGo(req, cap)

Respond == \E h \in handlers : ServeHTTPAccepted(h)

Deliver(answers) ==
    \E k \in 1..MaxSends : GoFunc(k) \/ LookupMX(k, answers) \/ Attempt(k)

\* The program as main starts it: requests are served and the goroutines
\* they start run side by side.
Next ==
    \/ \E req \in Requests : Serve(req, MaxSends)
    \/ Respond
    \/ Deliver(MXAnswers(MaxMXConcurrent))

Spec == Init /\ [][Next]_vars

\* The program, with every started goroutine and handler running on.
FairSpec == Spec /\ WF_vars(Respond) /\ WF_vars(Deliver(MXAnswers(MaxMXConcurrent)))

\* The HTTP side alone, under every request: handlers run, the goroutine
\* one of them starts is not scheduled.
HttpNext ==
    \/ \E req \in AllRequests : Serve(req, 1)
    \/ Respond

HttpSpec == Init /\ [][HttpNext]_vars

\* A single Send, started by an accepted request or by a direct call of
\* sendErrorMessage, against longer DNS answers.
Harness == \E text \in ErrorTexts : sendErrorMessage(text, 1)

HarnessNext ==
    \/ \E req \in Requests : ServeHTTPGo(req, 1)
    \/ Respond
    \/ Deliver(MXAnswers(MaxMX))
    \/ Harness

HarnessSpec == Init /\ [][HarnessNext]_vars

\* The same, with every MX lookup and SMTP transaction returning: a Send
\* that can take a step takes one.
HarnessFairSpec == HarnessSpec /\ WF_vars(Deliver(MXAnswers(MaxMX)))

(***************************************************************************)
(* Properties of Email.Send.                                               *)
(***************************************************************************)
SendIds == 1..Len(sends)

\* The passes of the second loop in which an SMTP transaction was made.
Attempts(s) == SelectSeq(s.log, LAMBDA x : x.built)

\* The MX lookup of s has returned, without an error.
LookupSucceeded(s) == s.pc \in {"loop", "done"} /\ s.err = NoError

\* The MX lookup of s has returned an error.
LookupFailed(s) == s.pc = "done" /\ s.err # NoError

\* s has gone through its whole candidate list, an SMTP transaction was made
\* with every candidate, and each one failed.
EveryCandidateFailed(s) ==
    /\ s.pc = "done"
    /\ LookupSucceeded(s)
    /\ s.servers # <<>>
    /\ Len(s.log) = Len(s.servers)
    /\ \A j \in 1..Len(s.log) : s.log[j].built /\ s.log[j].err # NoError

\* C1: when the MX lookup succeeds with a non-empty candidate list and the
\* SMTP transaction fails on every candidate, Send returns a non-nil error,
\* the error of the last failed attempt.
C1_ReturnsLastError ==
    \A k \in SendIds :
        EveryCandidateFailed(sends[k]) =>
            /\ sends[k].ret # NoError
            /\ sends[k].ret = sends[k].log[Len(sends[k].log)].err

\* The delivery of a user message has failed for good.
TerminalFailure(s) ==
    /\ s.kind = "user"
    /\ LookupFailed(s) \/ EveryCandidateFailed(s)

\* s is a Send of the error report sendErrorMessage builds.
IsErrorReport(s) ==
    /\ s.kind = "error"
    /\ s.given.From = ErrorsFrom
    /\ s.given.Subject = "Application Error"
    /\ s.given.Body \in {DNSError, SMTPError, BuildError}

\* C2: when the delivery of a user message fails terminally (MX resolution
\* failed, or every candidate failed), eventually a second message with
\* From = errors@<domain of the outbound sender>, Subject "Application Error"
\* and Body = the error text is built and passed to Send.
C2_FailureIsReported ==
    \A k \in 1..MaxSends :
        (k \in SendIds /\ TerminalFailure(sends[k]))
            ~> (\E j \in SendIds : IsErrorReport(sends[j]))

\* C3 as claimed: the SMTP attempts of one Send are a prefix of its
\* candidate list, each attempt but the last one a failed one.
C3_AttemptsArePrefix ==
    \A k \in SendIds :
        LET a == Attempts(sends[k])
        IN /\ Len(a) <= Len(sends[k].servers)
           /\ \A j \in 1..Len(a) :
                /\ a[j].server = sends[k].servers[j]
                /\ j < Len(a) => a[j].err # NoError

\* C3, amended: the passes of the loop follow the candidate list in the
\* order DNS returned; every pass before the last one is a failed SMTP
\* attempt or a candidate skipped because the builder failed; nothing
\* follows a successful transaction; and while the builder has not failed
\* the SMTP attempts are a prefix of the candidate list.
C3_AttemptsInOrder ==
    \A k \in SendIds :
        LET s == sends[k]
            a == Attempts(s)
        IN /\ Len(s.log) <= Len(s.servers)
           /\ \A j \in 1..Len(s.log) :
                /\ s.log[j].server = s.servers[j]
                /\ j < Len(s.log) => s.log[j].err # NoError
                /\ s.log[j].err = NoError => s.log[j].built /\ s.pc = "done"
           /\ s.pc = "loop" => s.i = Len(s.log) + 1
           /\ (\A j \in 1..Len(s.log) : s.log[j].built) =>
                 \A j \in 1..Len(a) : a[j].server = s.servers[j]

\* With three candidates A, B, C of which only the last accepts: A, then B,
\* then C were attempted and Send is over.
C3_Witness ==
    \E k \in SendIds :
        LET s == sends[k]
        IN /\ Len(s.servers) = 3
           /\ s.servers[1] # s.servers[2]
           /\ s.pc = "done"
           /\ Len(s.log) = 3
           /\ \A j \in 1..3 : s.log[j].built
           /\ s.log[1].err # NoError /\ s.log[2].err # NoError
           /\ s.log[3].err = NoError

\* C4: if the MX lookup fails, Send returns that error at once: the message
\* builder is never called and no SMTP transaction is made.
C4_LookupFailureReturns ==
    \A k \in SendIds :
        sends[k].err # NoError =>
            /\ sends[k].pc = "done"
            /\ sends[k].ret = sends[k].err
            /\ sends[k].log = <<>>
            /\ sends[k].servers = <<>>

C4_Witness ==
    \E k \in SendIds : LookupFailed(sends[k]) /\ sends[k].ret = DNSError

(***************************************************************************)
(* Properties of the HTTP side.                                            *)
(***************************************************************************)
PostSend(req) == req.method = "POST" /\ req.path = "/send"

Acceptable(req) == req.accept \in {"*/*", "application/json"}

\* The body is a JSON object with a member of this name whose value is a
\* string.
HasString(body, name) ==
    /\ body.json
    /\ \E j \in 1..Len(body.members) :
          body.members[j][1] = name /\ body.members[j][2].t = "string"

\* C5: a POST /send with Content-Type application/json and an acceptable
\* Accept whose body is not JSON is answered 422, and no send is detached.
C5_MalformedIs422 ==
    \A x \in exchange :
        (/\ PostSend(x.req)
         /\ x.req.contentType = "application/json"
         /\ Acceptable(x.req)
         /\ ~x.req.body.json)
            => x.status = 422 /\ x.send = 0

\* C6: a POST /send with Content-Type application/json, Accept */* or
\* application/json and a JSON object body with string members From and
\* Body is answered 202, whatever becomes of the detached send.
C6_ValidIs202 ==
    \A x \in exchange :
        (/\ PostSend(x.req)
         /\ x.req.contentType = "application/json"
         /\ Acceptable(x.req)
         /\ HasString(x.req.body, "From")
         /\ HasString(x.req.body, "Body"))
            => x.status = StatusAccepted

\* C7 as claimed: any request whose Content-Type is not application/json is
\* answered 415.
C7_AnyRequest415 ==
    \A x \in exchange :
        x.req.contentType # "application/json" =>
            x.status = StatusUnsupportedMediaType /\ x.send = 0

\* The step answered a request of the given kind.
Answered(Kind(_)) == exchange' # exchange /\ \E x \in exchange' : Kind(x.req)

WrongContentType(req) == PostSend(req) /\ req.contentType # "application/json"

\* C7, amended: a POST to /send whose Content-Type is not exactly
\* application/json is answered 415, and answering it starts no send.
C7_PostSend415 ==
    /\ [](\A x \in exchange :
            WrongContentType(x.req) =>
                x.status = StatusUnsupportedMediaType /\ x.send = 0)
    /\ [][Answered(WrongContentType) => UNCHANGED <<sends, handlers>>]_vars

C7_Witness ==
    \E x \in exchange :
        /\ WrongContentType(x.req)
        /\ ~Acceptable(x.req)
        /\ x.status = StatusUnsupportedMediaType

\* C8 as claimed: any request whose Accept is neither */* nor
\* application/json is answered 406.
C8_AnyRequest406 ==
    \A x \in exchange : ~Acceptable(x.req) => x.status = StatusNotAcceptable

\* C8, amended: a POST to /send with Content-Type application/json whose
\* Accept is neither */* nor application/json is answered 406.
C8_PostSendJson406 ==
    \A x \in exchange :
        (/\ PostSend(x.req)
         /\ x.req.contentType = "application/json"
         /\ ~Acceptable(x.req))
            => x.status = StatusNotAcceptable

C8_Witness ==
    \E x \in exchange :
        /\ PostSend(x.req)
        /\ x.req.contentType = "application/json"
        /\ ~Acceptable(x.req)
        /\ HasString(x.req.body, "From")
        /\ x.status = StatusNotAcceptable

(***************************************************************************)
(* Properties of Send invocations side by side.                            *)
(***************************************************************************)
\* C9: concurrent Send invocations share no mutable state.  Each Send keeps
\* the From and Body its own request was decoded to, builds and transmits
\* only that message, and walks its own candidate list; a step of one Send
\* changes no other Send; and the configuration is never written.
C9_SendsShareNothing ==
    /\ [](/\ \A h \in handlers :
                sends[h.send].given = Decode(h.req.body).message
          /\ \A x \in exchange :
                x.send # 0 => sends[x.send].given = Decode(x.req.body).message
          /\ \A k \in SendIds :
                LET s == sends[k]
                IN /\ s.e.From = s.given.From
                   /\ s.e.Body = s.given.Body
                   /\ s.e.Subject \in {s.given.Subject, "New Web Inquiry"}
                   /\ \A j \in 1..Len(s.log) :
                        /\ s.log[j].server = s.servers[j]
                        /\ s.log[j].built =>
                              /\ s.log[j].msg.From = s.given.From
                              /\ s.log[j].msg.Text = s.given.Body
                              /\ s.log[j].msg.Subject = s.e.Subject)
    /\ [][/\ config' = config
          /\ \A k \in SendIds : \A j \in SendIds :
                (j # k /\ sends'[k] # sends[k]) => sends'[j] = sends[j]]_vars

\* Two Sends of different messages, each with a transaction made with a
\* server of its own.
C9_Witness ==
    \E k \in SendIds : \E j \in SendIds :
        /\ sends[k].given.From # sends[j].given.From
        /\ sends[k].servers # <<>> /\ sends[j].servers # <<>>
        /\ sends[k].servers # sends[j].servers
        /\ sends[k].log # <<>> /\ sends[k].log[1].built
        /\ sends[j].log # <<>> /\ sends[j].log[1].built

\* C10: every SMTP attempt of every Send, for a user message or an error
\* report, has the configured outbound sender as envelope sender and the
\* configured inbox as its single envelope recipient, and the built message
\* has the inbox as its only To recipient.
C10_FixedEnvelope ==
    \A k \in SendIds :
        \A j \in 1..Len(sends[k].log) :
            sends[k].log[j].built =>
                /\ sends[k].log[j].from = outboundSender
                /\ sends[k].log[j].to = <<inboxAddress>>
                /\ sends[k].log[j].msg.To = <<inboxAddress>>

\* An attempt made for a message whose own From is another address.
C10_Witness ==
    \E k \in SendIds :
        /\ sends[k].e.From = Bob
        /\ \E j \in 1..Len(sends[k].log) : sends[k].log[j].built

(***************************************************************************)
(* Further properties of Email.Send and of the goroutine that calls it.    *)
(***************************************************************************)
\* The MX lookup of s returned no record and no error.
EmptyAnswer(s) == LookupSucceeded(s) /\ s.mxServers = <<>>

\* C11: if the MX lookup returns zero records and no error, Send calls the
\* message builder for no candidate, makes no SMTP attempt and returns nil.
C11_EmptyAnswerIsSuccess ==
    \A k \in SendIds :
        EmptyAnswer(sends[k]) =>
            /\ sends[k].pc = "done"
            /\ sends[k].log = <<>>
            /\ sends[k].ret = NoError

C11_Witness ==
    \E k \in SendIds :
        /\ EmptyAnswer(sends[k])
        /\ sends[k].lookups = 1
        /\ sends[k].pc = "done"

\* Send has been called on the message of s.
InSend(s) == s.pc \in {"send", "loop", "done"}

\* C12: a Subject given in the request body reaches neither the message
\* builder nor the wire: the message handed to Send for an accepted request,
\* and built in every delivery attempt, has the Subject "New Web Inquiry".
C12_SubjectIsFixed ==
    \A k \in SendIds :
        (sends[k].kind = "user" /\ InSend(sends[k])) =>
            /\ sends[k].e.Subject = "New Web Inquiry"
            /\ \A j \in 1..Len(sends[k].log) :
                  sends[k].log[j].built =>
                      sends[k].log[j].msg.Subject = "New Web Inquiry"

\* A request that carried its own Subject, with an attempt made for it.
C12_Witness ==
    \E k \in SendIds :
        /\ sends[k].kind = "user"
        /\ sends[k].given.Subject = "Win"
        /\ \E j \in 1..Len(sends[k].log) : sends[k].log[j].built

\* C13 as claimed: the 202 response is returned before the first delivery
\* step of the detached send: as long as a handler has not answered, its
\* goroutine has made no MX lookup (and so no SMTP attempt).
C13_ResponseBeforeDelivery ==
    \A h \in handlers :
        sends[h.send].lookups = 0 /\ sends[h.send].log = <<>>

\* C13, amended: the handler never waits for the send.  Once it has started
\* the goroutine it can write the 202 response in whatever state the send
\* is (not begun, under way or over), and the response it writes is 202 for
\* the goroutine it started.
C13_HandlerNeverWaits ==
    /\ \A h \in handlers :
          /\ h.send \in SendIds
          /\ ENABLED ServeHTTPAccepted(h)
    /\ \A x \in exchange :
          x.send # 0 => x.status = StatusAccepted /\ x.send \in SendIds

\* A 202 returned for a send that has not begun its delivery.
C13_Witness ==
    \E x \in exchange :
        /\ x.status = StatusAccepted
        /\ sends[x.send].lookups = 0
        /\ sends[x.send].pc = "go"

(***************************************************************************)
(* Further properties of the HTTP side.                                    *)
(***************************************************************************)
\* The response carries the three grant headers for the request's origin.
Granted(x) == x.header = CorsHeaders(x.req.origin)

Preflight(req) == req.method = "OPTIONS"

\* C14 as claimed: a response carries the CORS grant headers if and only if
\* the request is an OPTIONS request whose Origin is the whitelisted one, and
\* no OPTIONS request starts a send.
C14_GrantIffPreflightFromOrigin ==
    \A x \in exchange :
        /\ Granted(x) <=> (Preflight(x.req) /\ x.req.origin = whitelistedDomain)
        /\ Preflight(x.req) => x.send = 0

\* C14, amended: of the requests for /send, exactly the OPTIONS requests
\* whose Origin equals the whitelisted origin are answered with the grant
\* headers, and every other response has no header of them; an OPTIONS
\* request for /send is answered by the wrapper (status 200, nothing
\* written) and no OPTIONS request starts a send.
C14_GrantOnSendPath ==
    /\ [](\A x \in exchange :
            /\ Routed(x.req) =>
                 (Granted(x) <=>
                    (Preflight(x.req) /\ x.req.origin = whitelistedDomain))
            /\ ~Granted(x) => x.header = {}
            /\ (Preflight(x.req) /\ Routed(x.req)) =>
                 x.status = StatusOK /\ x.text = ""
            /\ Preflight(x.req) => x.send = 0)
    /\ [][Answered(Preflight) => UNCHANGED <<sends, handlers>>]_vars

\* A preflight from the whitelisted origin, granted; the request would
\* otherwise have been a well-formed submission.
C14_Witness ==
    \E x \in exchange :
        /\ Preflight(x.req) /\ Routed(x.req)
        /\ x.req.origin = whitelistedDomain
        /\ x.req.contentType = "application/json"
        /\ Granted(x)
        /\ <<"Access-Control-Allow-Origin", Origin>> \in x.header

\* The request fails one of the checks: method and path, Content-Type,
\* Accept, JSON.
FailsACheck(req) ==
    \/ ~PostSend(req)
    \/ req.contentType # "application/json"
    \/ ~Acceptable(req)
    \/ ~req.body.json

\* C15: a Send is detached for a request if and only if the request is
\* answered 202.  An answer names a send exactly when it is 202; a request
\* that fails a check is not answered 202 and starts no send; every step
\* starts at most one send, and then for exactly one handler, which answers
\* 202 once; answering anything else starts nothing.
C15_SendIffAccepted ==
    /\ [](/\ \A x \in exchange :
                /\ x.send # 0 <=> x.status = StatusAccepted
                /\ x.send # 0 => x.send \in SendIds /\ sends[x.send].kind = "user"
                /\ FailsACheck(x.req) => x.send = 0 /\ x.status # StatusAccepted
          /\ \A h \in handlers :
                /\ h.send \in SendIds
                /\ ~FailsACheck(h.req)
                /\ \A g \in handlers : g.send = h.send => g = h
          /\ \A k \in SendIds :
                sends[k].kind = "user")
    /\ [][/\ Len(sends') \in {Len(sends), Len(sends) + 1}
          /\ Len(sends') = Len(sends) + 1 =>
                /\ exchange' = exchange
                /\ \E h \in handlers' \ handlers :
                      /\ h.send = Len(sends')
                      /\ handlers' = handlers \cup {h}
          /\ exchange' # exchange =>
                \A x \in exchange' :
                    IF x.status = StatusAccepted
                    THEN /\ sends' = sends
                         /\ \E h \in handlers :
                               /\ h.send = x.send /\ h.req = x.req
                               /\ handlers' = handlers \ {h}
                    ELSE UNCHANGED <<sends, handlers>>]_vars

\* Two requests accepted, two sends, both answered.
C15_Witness ==
    /\ Len(sends) = 2
    /\ handlers = {}
    /\ \E x \in exchange : x.status = StatusAccepted /\ x.send = 2

(***************************************************************************)
(* The message builder in the loop, the error report, termination.         *)
(***************************************************************************)
\* C16: within Send the message builder is called once for each candidate
\* the loop reaches (pass j is for candidate j), not once per Send; when it
\* fails for a candidate no SMTP transaction is made with that candidate,
\* and the loop goes on to the next candidate instead of ending.
C16_BuilderPerCandidate ==
    \A k \in SendIds :
        LET s == sends[k]
        IN /\ Len(s.log) <= Len(s.servers)
           /\ s.pc = "loop" => s.i = Len(s.log) + 1
           /\ \A j \in 1..Len(s.log) :
                /\ s.log[j].server = s.servers[j]
                /\ s.log[j].built => s.log[j].msg = ConstructMessage(s.e)
                /\ ~s.log[j].built =>
                      /\ s.log[j].err = BuildError
                      /\ s.log[j].msg = NoMessage
                      /\ s.log[j].from = <<>> /\ s.log[j].to = <<>>
                      /\ j < Len(s.servers) =>
                            \/ Len(s.log) > j
                            \/ s.pc = "loop" /\ s.i = j + 1

\* The builder failed for the first candidate and the second one was
\* attempted with a message built anew.
C16_Witness ==
    \E k \in SendIds :
        LET s == sends[k]
        IN /\ Len(s.log) >= 2
           /\ ~s.log[1].built
           /\ s.log[2].built
           /\ s.log[2].server = s.servers[2]

\* The Send of an error report has failed: its lookup failed, or it went
\* through its candidates without a transaction that worked.
ReportFailed(s) ==
    /\ s.kind = "error"
    /\ s.pc = "done"
    /\ \/ LookupFailed(s)
       \/ /\ s.log # <<>>
          /\ \A j \in 1..Len(s.log) : s.log[j].err # NoError

\* C17: the error-reporting path cannot loop.  One call of the reporter is
\* one Send of the "Application Error" message; a step of a Send, its
\* failure included, starts no Send (so no further report); a step that
\* starts a Send starts one and touches no other; and a Send that has
\* returned does nothing more, whatever it returned.
C17_ReportDoesNotLoop ==
    /\ [](\A k \in SendIds :
            sends[k].kind = "error" =>
                /\ IsErrorReport(sends[k])
                /\ sends[k].e = sends[k].given
                /\ sends[k].lookups <= 1)
    /\ [][/\ \A k \in SendIds :
                /\ sends'[k] # sends[k] => Len(sends') = Len(sends)
                /\ sends[k].pc = "done" => sends'[k] = sends[k]
          /\ Len(sends') # Len(sends) =>
                /\ Len(sends') = Len(sends) + 1
                /\ \A k \in SendIds : sends'[k] = sends[k]]_vars

\* An error report whose own Send failed, and no other Send.
C17_Witness ==
    /\ Len(sends) = 1
    /\ ReportFailed(sends[1])
    /\ sends[1].log # <<>>

\* C18: validation is decided by the first failing check, in the order
\* method and path, Content-Type, Accept, JSON.  A request other than
\* OPTIONS that is not POST /send gets 404 whatever its headers and body; a
\* POST /send with a wrong Content-Type gets 415 whatever its Accept and
\* body; a POST /send with the right Content-Type and an unacceptable Accept
\* gets 406 whatever its body; and only then does the body decide.
C18_FirstFailingCheck ==
    \A x \in exchange :
        /\ (~Preflight(x.req) /\ ~PostSend(x.req)) => x.status = StatusNotFound
        /\ WrongContentType(x.req) => x.status = StatusUnsupportedMediaType
        /\ (PostSend(x.req) /\ x.req.contentType = "application/json"
              /\ ~Acceptable(x.req)) =>
                 x.status = StatusNotAcceptable /\ x.text = "406"
        /\ (PostSend(x.req) /\ x.req.contentType = "application/json"
              /\ Acceptable(x.req)) =>
                 IF Decode(x.req.body).err
                 THEN x.text = "422" /\ x.send = 0
                 ELSE x.status = StatusAccepted

\* A request that fails every check is answered for the first one.
C18_Witness ==
    \E x \in exchange :
        /\ x.req.method = "GET" /\ x.req.path = "/send"
        /\ x.req.contentType # "application/json"
        /\ ~Acceptable(x.req)
        /\ ~x.req.body.json
        /\ x.status = StatusNotFound

\* C19: with every MX lookup and SMTP transaction returning, every Send
\* terminates, after exactly one MX lookup and at most one SMTP attempt per
\* MX record returned; pass j of the loop is for candidate j, so that no
\* candidate is tried twice.
C19_SendTerminates ==
    /\ [](\A k \in SendIds :
            LET s == sends[k]
            IN /\ s.lookups <= 1
               /\ s.pc \in {"loop", "done"} => s.lookups = 1
               /\ Len(s.servers) = Len(s.mxServers)
               /\ Len(s.log) <= Len(s.mxServers)
               /\ Len(Attempts(s)) <= Len(s.mxServers)
               /\ s.pc = "loop" => s.i = Len(s.log) + 1 /\ s.i <= Len(s.servers)
               /\ \A j \in 1..Len(s.log) : s.log[j].server = s.servers[j])
    /\ \A k \in 1..MaxSends :
          (k \in SendIds) ~> (k \in SendIds /\ sends[k].pc = "done")

\* A Send that went through three candidates, each once, and returned.
C19_Witness ==
    \E k \in SendIds :
        /\ sends[k].pc = "done"
        /\ sends[k].lookups = 1
        /\ Len(sends[k].mxServers) = 3
        /\ Len(Attempts(sends[k])) = 3
        /\ \A j \in 1..3 : sends[k].log[j].err # NoError

====
